---- MODULE Spec2Model ----
(***************************************************************************)
(* oca-port-analyze: commit classification, per-category aggregation and    *)
(* the cross-version heatmap walk.                                          *)
(*                                                                          *)
(* Text (commit summaries, version strings, matrix keys) is modelled as a   *)
(* sequence of one-character strings, so that lower-casing, regex search,   *)
(* parsing and formatting are computed character by character.  Category    *)
(* labels and addon names are opaque and are modelled as TLA+ strings.      *)
(***************************************************************************)
EXTENDS Integers, Sequences, FiniteSets, TLC

VARIABLES
    pc,                                      \* position in the operation under analysis
    message, category,                       \* categorize_commit: argument, return value
    source_version_str, target_version_str,  \* _get_odoo_versions_between: arguments
    versions,                                \* _get_odoo_versions_between: return value
    commits_diff,                            \* diff.commits_diff handed to compute_changes
    min_lines,                               \* AnalyzeNativeChanges.min_lines / --min_lines
    _results,                                \* AnalyzeNativeChanges._results
    addons, source_version, target_version,  \* analyze: addons argument, resolved branches
    heatmap_category,                        \* analyze: --heatmap-category
    all_versions, heatmap_results,           \* analyze: locals of the heatmap walk
    addon_index, i,                          \* analyze: positions of the two loops
    tmp_file,                                \* the temporary JSON file
    calls,                                   \* history: the analyses attempted, in order
    output,                                  \* analyze: --output
    error                                    \* the exception analyze ended with, if any

cvars == <<message, category>>
vvars == <<source_version_str, target_version_str, versions>>
avars == <<commits_diff, min_lines, _results>>
wvars == <<addons, source_version, target_version, heatmap_category, all_versions,
           heatmap_results, addon_index, i, tmp_file, calls>>
svars == <<output, error>>

(***************************************************************************)
(* Bounds                                                                   *)
(***************************************************************************)
MaxFragments == 3
MaxMajor == 11
MaxCommits == 3
MaxLines == 1
MaxDiffCommits == 2

(***************************************************************************)
(* Text helpers                                                             *)
(***************************************************************************)
Upper == <<"A","B","C","D","E","F","G","H","I","J","K","L","M",
           "N","O","P","Q","R","S","T","U","V","W","X","Y","Z">>

LowerAlpha == <<"a","b","c","d","e","f","g","h","i","j","k","l","m",
                "n","o","p","q","r","s","t","u","v","w","x","y","z">>

\* str.lower(), one character
LowerChar(c) ==
    IF \E k \in 1..26 : Upper[k] = c
    THEN LowerAlpha[CHOOSE k \in 1..26 : Upper[k] = c]
    ELSE c

\* str.lower()
lower(s) == [p \in 1..Len(s) |-> LowerChar(s[p])]

\* the characters the regex class \s matches
Whitespace == {" ", "\t", "\n"}

\* pat occurs in s starting at position p
OccursAt(s, pat, p) ==
    /\ p >= 1
    /\ p + Len(pat) - 1 <= Len(s)
    /\ \A j \in 1..Len(pat) : s[p + j - 1] = pat[j]

\* Python's `pat in s` and re.search of a literal
Contains(s, pat) == \E p \in 1..(Len(s) + 1) : OccursAt(s, pat, p)

\* re.search(tag + r"\s*\S+", s): an occurrence of tag, then a (possibly
\* empty) run of whitespace, then at least one non-whitespace character
SearchTagToken(s, tag) ==
    \E p \in 1..Len(s) :
        /\ OccursAt(s, tag, p)
        /\ \E q \in (p + Len(tag))..Len(s) :
              /\ \A r \in (p + Len(tag))..(q - 1) : s[r] \in Whitespace
              /\ s[q] \notin Whitespace

FixTag == <<"[","f","i","x","]">>
ImpTag == <<"[","i","m","p","]">>
RefTag == <<"[","r","e","f","]">>
I18nTag == <<"[","i","1","8","n","]">>
CoreWord == <<"c","o","r","e">>
Star == <<"*">>

Categories == {"fix", "local change", "global change", "translations", "other"}

(***************************************************************************)
(* AnalyzeNativeChanges.categorize_commit                                   *)
(***************************************************************************)
categorize_commit_no_token(msg) ==
    LET message_lower == lower(msg) IN
    IF Contains(message_lower, FixTag) THEN "fix"
    ELSE IF SearchTagToken(message_lower, ImpTag) \/ SearchTagToken(message_lower, RefTag)
         THEN "local change"
    ELSE IF /\ (Contains(message_lower, ImpTag) \/ Contains(message_lower, RefTag))
            /\ (Contains(message_lower, CoreWord) \/ Contains(message_lower, Star))
         THEN "global change"
    ELSE IF Contains(message_lower, I18nTag) THEN "translations"
    ELSE "other"

categorize_commit(msg) ==
    LET message_lower == lower(msg) IN
    IF SearchTagToken(message_lower, FixTag) THEN "fix"
    ELSE IF SearchTagToken(message_lower, ImpTag) \/ SearchTagToken(message_lower, RefTag)
         THEN "local change"
    ELSE IF /\ (Contains(message_lower, ImpTag) \/ Contains(message_lower, RefTag))
            /\ (Contains(message_lower, CoreWord) \/ Contains(message_lower, Star))
         THEN "global change"
    ELSE IF Contains(message_lower, I18nTag) THEN "translations"
    ELSE "other"

(***************************************************************************)
(* Commit summaries the classifier is exercised on: the summaries quoted    *)
(* in the documentation, and every concatenation of up to MaxFragments      *)
(* fragments (tags in mixed case, blanks, punctuation, words).              *)
(***************************************************************************)
Fragments ==
    << <<"[","F","I","X","]">>,
       <<"[","I","m","p","]">>,
       <<"[","r","e","f","]">>,
       <<"[","i","1","8","n","]">>,
       <<" ">>,
       <<".">>,
       <<"c","o","r","e">>,
       <<"*">>,
       <<"x">> >>

RECURSIVE Concat(_)
Concat(fs) == IF fs = <<>> THEN <<>> ELSE Fragments[Head(fs)] \o Concat(Tail(fs))

ImpCoreBatchUpdate ==
    <<"[","I","M","P","]"," ","c","o","r","e",":"," ",
      "b","a","t","c","h"," ","u","p","d","a","t","e">>

FixStockRounding ==
    <<"[","F","I","X","]"," ","s","t","o","c","k",":"," ",
      "c","o","r","r","e","c","t"," ","r","o","u","n","d","i","n","g">>

ImpSalePricelist ==
    <<"[","I","M","P","]"," ","s","a","l","e",":"," ","r","e","f","a","c","t","o","r"," ",
      "p","r","i","c","e","l","i","s","t"," ","*"," ","c","o","r","e">>

I18nUpdate ==
    <<"[","i","1","8","n","]"," ","U","p","d","a","t","e"," ",
      "t","r","a","n","s","l","a","t","i","o","n","s">>

ScenarioSummaries == {ImpCoreBatchUpdate, FixStockRounding, ImpSalePricelist, I18nUpdate}

FragmentLists == UNION {[1..n -> 1..Len(Fragments)] : n \in 0..MaxFragments}

Summaries == ScenarioSummaries \cup {Concat(fs) : fs \in FragmentLists}

Unset == "unset"

(***************************************************************************)
(* _get_odoo_versions_between                                               *)
(***************************************************************************)
Digits == <<"0","1","2","3","4","5","6","7","8","9">>

\* int() of one decimal digit character
DigitValue(c) == (CHOOSE k \in 1..10 : Digits[k] = c) - 1

\* int() of a string of decimal digits
RECURSIVE int(_)
int(ds) ==
    IF Len(ds) = 1 THEN DigitValue(ds[1])
    ELSE int(SubSeq(ds, 1, Len(ds) - 1)) * 10 + DigitValue(ds[Len(ds)])

\* str() of a non-negative integer, as used by f"{major}.0"
RECURSIVE str(_)
str(n) ==
    IF n < 10 THEN <<Digits[n + 1]>>
    ELSE str(n \div 10) \o <<Digits[(n % 10) + 1]>>

\* version_str.split(".")
RECURSIVE split_dot(_)
split_dot(s) ==
    IF \E p \in 1..Len(s) : s[p] = "."
    THEN LET p == CHOOSE x \in 1..Len(s) :
                     s[x] = "." /\ \A y \in 1..(x - 1) : s[y] # "."
         IN  <<SubSeq(s, 1, p - 1)>> \o split_dot(SubSeq(s, p + 1, Len(s)))
    ELSE <<s>>

\* parse_version: major, minor = map(int, version_str.split(".")); major * 10 + minor
parse_version(version_str) ==
    LET parts == split_dot(version_str)
        major == int(parts[1])
        minor == int(parts[2])
    IN  major * 10 + minor

\* one pass of the body of `for i in range(source_int, target_int + 1)`: what
\* it appends to versions
versions_loop_body(n) ==
    LET major == n \div 10
        minor == n % 10
    IN  IF minor = 0 THEN <<str(major) \o <<".", "0">>>> ELSE <<>>

\* the loop `for i in range(source_int, target_int + 1)`: the passes for
\* first..last in ascending order (the range is halved to keep the
\* evaluation shallow)
RECURSIVE versions_loop(_, _)
versions_loop(first, last) ==
    IF first > last THEN <<>>
    ELSE IF first = last THEN versions_loop_body(first)
    ELSE LET mid == (first + last) \div 2
         IN  versions_loop(first, mid) \o versions_loop(mid + 1, last)

\* list.reverse()
reverse(l) == [p \in 1..Len(l) |-> l[Len(l) + 1 - p]]

_get_odoo_versions_between_no_swap(source_version_str_, target_version_str_) ==
    LET source_int == parse_version(source_version_str_)
        target_int == parse_version(target_version_str_)
    IN  reverse(versions_loop(source_int, target_int))

_get_odoo_versions_between(source_version_str_, target_version_str_) ==
    LET source_int == parse_version(source_version_str_)
        target_int == parse_version(target_version_str_)
        lo == IF source_int > target_int THEN target_int ELSE source_int
        hi == IF source_int > target_int THEN source_int ELSE target_int
    IN  reverse(versions_loop(lo, hi))

\* the version strings "M.m" with 0 <= M <= MaxMajor and 0 <= m <= 9
VersionStrings == {str(M) \o <<".">> \o str(m) : M \in 0..MaxMajor, m \in 0..9}

(***************************************************************************)
(* AnalyzeNativeChanges.compute_changes                                     *)
(*                                                                          *)
(* A commit is a record [hexsha, summary, lines]; lines is what             *)
(* get_commit_line_count returns for it.  A dict is a function whose        *)
(* domain is the set of its keys.                                           *)
(***************************************************************************)
EmptyDict == [k \in {} |-> 0]

\* d[k] = v
DictSet(d, k, v) == [x \in DOMAIN d \cup {k} |-> IF x = k THEN v ELSE d[x]]

\* defaultdict lookup
DictGet(d, k, default) == IF k \in DOMAIN d THEN d[k] ELSE default

\* commit.raw_commit.stats.total.get("lines", 0)
get_commit_line_count(commit) == commit.lines

ComputeStart ==
    [category_commits |-> EmptyDict, category_lines |-> EmptyDict,
     total_commits |-> 0, total_lines |-> 0]

\* the body of `for commit in diff.commits_diff`
loop_body_totals_before_filter(acc, commit, min_lines_) ==
    LET line_count == get_commit_line_count(commit)
        category_ == categorize_commit(commit.summary)
    IN  IF line_count < min_lines_
        THEN [acc EXCEPT !.total_commits = @ + 1, !.total_lines = @ + line_count]
        ELSE [category_commits |->
                  DictSet(acc.category_commits, category_,
                          Append(DictGet(acc.category_commits, category_, <<>>),
                                 [hexsha |-> commit.hexsha, summary |-> commit.summary])),
              category_lines |->
                  DictSet(acc.category_lines, category_,
                          DictGet(acc.category_lines, category_, 0) + line_count),
              total_commits |-> acc.total_commits + 1,
              total_lines |-> acc.total_lines + line_count]

loop_body_filter_le(acc, commit, min_lines_) ==
    LET line_count == get_commit_line_count(commit)
        category_ == categorize_commit(commit.summary)
    IN  IF line_count <= min_lines_
        THEN acc
        ELSE [category_commits |->
                  DictSet(acc.category_commits, category_,
                          Append(DictGet(acc.category_commits, category_, <<>>),
                                 [hexsha |-> commit.hexsha, summary |-> commit.summary])),
              category_lines |->
                  DictSet(acc.category_lines, category_,
                          DictGet(acc.category_lines, category_, 0) + line_count),
              total_commits |-> acc.total_commits + 1,
              total_lines |-> acc.total_lines + line_count]

loop_body(acc, commit, min_lines_) ==
    LET line_count == get_commit_line_count(commit)
        category_ == categorize_commit(commit.summary)
    IN  IF line_count < min_lines_
        THEN acc
        ELSE [category_commits |->
                  DictSet(acc.category_commits, category_,
                          Append(DictGet(acc.category_commits, category_, <<>>),
                                 [hexsha |-> commit.hexsha, summary |-> commit.summary])),
              category_lines |->
                  DictSet(acc.category_lines, category_,
                          DictGet(acc.category_lines, category_, 0) + line_count),
              total_commits |-> acc.total_commits + 1,
              total_lines |-> acc.total_lines + line_count]

RECURSIVE commits_loop(_, _, _)
commits_loop(acc, commits, min_lines_) ==
    IF commits = <<>> THEN acc
    ELSE commits_loop(loop_body(acc, Head(commits), min_lines_), Tail(commits), min_lines_)

\* the value stored at self._results["results"]
compute_changes(commits, min_lines_) ==
    LET acc == commits_loop(ComputeStart, commits, min_lines_)
        categories_summary ==
            [c \in DOMAIN acc.category_commits |->
                [commits |-> Len(acc.category_commits[c]),
                 line_changes |-> acc.category_lines[c],
                 commit_details |-> acc.category_commits[c]]]
    IN  [total_commits |-> acc.total_commits,
         total_line_changes |-> acc.total_lines,
         categories |-> categories_summary]

\* self._results = {"process": "analyze"}
ResultsStart == [process |-> "analyze"]

\* summaries of the commits handed to the aggregator, one or more per category
FixX == Concat(<<1, 5, 9>>)
ImpX == Concat(<<2, 5, 9>>)
CoreRef == Concat(<<7, 3>>)
I18n == Concat(<<4>>)

AggSummaries == {FixX, ImpX, CoreRef, I18n, <<>>}

\* the commit sequence with the given summaries and line counts; the hexsha
\* of a commit is unique
CommitSeq(f) ==
    [p \in DOMAIN f |-> [hexsha |-> p, summary |-> f[p][1], lines |-> f[p][2]]]

\* the state of the operations a specification does not exercise
ClassifierIdle == message = <<>> /\ category = Unset

VersionsIdle ==
    source_version_str = <<>> /\ target_version_str = <<>> /\ versions = <<>>

AggregatorIdle == commits_diff = <<>> /\ min_lines = 0 /\ _results = ResultsStart

(***************************************************************************)
(* analyze, heatmap mode                                                    *)
(***************************************************************************)
\* Output._render_output(output, data) for the structured payload
_render_output(output_, data) == data

\* AnalyzeNativeChanges.run on the commits the diff collaborator found, with
\* app.output set: the payload handed back by app.run_analyze()
run(commits, min_lines_) ==
    _render_output("json", [process |-> "analyze",
                            results |-> compute_changes(commits, min_lines_)])

\* f"{current_source_version}-{current_target_version}"
version_transition_key(current_source_version, current_target_version) ==
    current_source_version \o <<"-">> \o current_target_version

\* analysis_results.get("results", {}).get("categories", {})
category_data(analysis_results) == analysis_results.results.categories

\* category_data.get("translations") is None when the key is missing, and
\* subscripting None raises TypeError
extraction_raises(analysis_results) ==
    "translations" \notin DOMAIN category_data(analysis_results)

\* category_data.get("translations")["line_changes"]
line_changes(analysis_results) ==
    category_data(analysis_results)["translations"].line_changes

\* heatmap_results[addon][version_transition_key] = line_changes, on a
\* defaultdict(dict)
store_cell(results, addon, key, value) ==
    DictSet(results, addon, DictSet(DictGet(results, addon, EmptyDict), key, value))

\* what the try block leaves in the history when it raised before a payload
\* was returned
NoPayload == [process |-> "raised"]

NoFile == [exists |-> FALSE, data |-> EmptyDict]

\* inputs of the walk
AddonLists == {<<>>, <<"delivery">>, <<"delivery", "stock">>}

BranchVersions ==
    {<<"1","5",".","0">>, <<"1","6",".","0">>, <<"1","6",".","5">>, <<"1","7",".","0">>}

WalkMinLines == {0, 4}

\* the values of --heatmap-category exercised: the default, two other labels
\* and an unrecognized one
RequestedCategories == {"local change", "translations", "fix", "bogus"}

\* the commits the diff collaborator may report for one (addon, pair)
DiffCommits == {[summary |-> ImpX, lines |-> 3], [summary |-> I18n, lines |-> 5]}

DiffCommitSeqs ==
    UNION {{[p \in 1..k |-> [hexsha |-> p, summary |-> f[p].summary, lines |-> f[p].lines]] :
               f \in [1..k -> DiffCommits]} : k \in 0..MaxDiffCommits}

\* the payload app.run_analyze() returns, for each threshold and each commit
\* sequence of the diff collaborator
analyses == [m \in WalkMinLines |-> [c \in DiffCommitSeqs |-> run(c, m)]]

\* no --output, no exception
NoOutput == "None"

NoError == "none"

SingleIdle == output = NoOutput /\ error = NoError

WalkIdle ==
    /\ addons = <<>> /\ source_version = <<>> /\ target_version = <<>>
    /\ heatmap_category = Unset /\ all_versions = <<>> /\ heatmap_results = EmptyDict
    /\ addon_index = 0 /\ i = 0 /\ tmp_file = NoFile /\ calls = <<>>

\* the command is entered with --with-heatmap
AnalyzeInit ==
    /\ pc = "analyze"
    /\ addons \in AddonLists
    /\ source_version \in BranchVersions
    /\ target_version \in BranchVersions
    /\ min_lines \in WalkMinLines
    /\ heatmap_category \in RequestedCategories
    /\ all_versions = <<>>
    /\ heatmap_results = EmptyDict
    /\ addon_index = 0
    /\ i = 0
    /\ tmp_file = NoFile
    /\ calls = <<>>
    /\ commits_diff = <<>>
    /\ _results = ResultsStart
    /\ ClassifierIdle
    /\ VersionsIdle
    /\ SingleIdle

\* lines 103-116: the chain is computed and the loops are entered
StartWalk ==
    /\ pc = "analyze"
    /\ all_versions' = _get_odoo_versions_between(source_version, target_version)
    /\ heatmap_results' = EmptyDict
    /\ addon_index' = 1
    /\ i' = 0
    /\ pc' = "walk"
    /\ UNCHANGED <<addons, source_version, target_version, heatmap_category,
                   tmp_file, calls, cvars, vvars, avars, svars>>

InPair ==
    /\ pc = "walk"
    /\ addon_index <= Len(addons)
    /\ i < Len(all_versions) - 1

Attempt(raised, analysis_results) ==
    [addon |-> addons[addon_index],
     source |-> all_versions[i + 1],
     target |-> all_versions[i + 2],
     raised |-> raised,
     analysis_results |-> analysis_results]

\* lines 119-162, App(...) or app.run_analyze() raises: the except clause
\* reports it and the loop goes on
WalkPairRaised_break ==
    /\ InPair
    /\ calls' = Append(calls, Attempt(TRUE, NoPayload))
    /\ i' = Len(all_versions) - 1
    /\ UNCHANGED <<pc, addons, source_version, target_version, heatmap_category,
                   all_versions, heatmap_results, addon_index, tmp_file,
                   cvars, vvars, avars, svars>>

WalkPairRaised ==
    /\ InPair
    /\ calls' = Append(calls, Attempt(TRUE, NoPayload))
    /\ i' = i + 1
    /\ UNCHANGED <<pc, addons, source_version, target_version, heatmap_category,
                   all_versions, heatmap_results, addon_index, tmp_file,
                   cvars, vvars, avars, svars>>

\* lines 119-162, the analysis returns and the extraction raises TypeError:
\* the except clause reports it and the loop goes on
WalkPairNotExtracted ==
    /\ InPair
    /\ \E commits \in DiffCommitSeqs :
          LET analysis_results == analyses[min_lines][commits] IN
          /\ extraction_raises(analysis_results)
          /\ calls' = Append(calls, Attempt(FALSE, analysis_results))
    /\ i' = i + 1
    /\ UNCHANGED <<pc, addons, source_version, target_version, heatmap_category,
                   all_versions, heatmap_results, addon_index, tmp_file,
                   cvars, vvars, avars, svars>>

\* lines 119-156, the analysis returns and the cell is stored
WalkPairStored ==
    /\ InPair
    /\ \E commits \in DiffCommitSeqs :
          LET analysis_results == analyses[min_lines][commits] IN
          /\ ~extraction_raises(analysis_results)
          /\ heatmap_results' =
                store_cell(heatmap_results, addons[addon_index],
                           version_transition_key(all_versions[i + 1], all_versions[i + 2]),
                           line_changes(analysis_results))
          /\ calls' = Append(calls, Attempt(FALSE, analysis_results))
    /\ i' = i + 1
    /\ UNCHANGED <<pc, addons, source_version, target_version, heatmap_category,
                   all_versions, addon_index, tmp_file, cvars, vvars, avars, svars>>

\* line 116/119: the inner loop is exhausted, the next addon is taken
NextAddon ==
    /\ pc = "walk"
    /\ addon_index <= Len(addons)
    /\ i >= Len(all_versions) - 1
    /\ addon_index' = addon_index + 1
    /\ i' = 0
    /\ UNCHANGED <<pc, addons, source_version, target_version, heatmap_category,
                   all_versions, heatmap_results, tmp_file, calls, cvars, vvars, avars, svars>>

\* lines 168-172: json.dump(heatmap_results, tmp_file)
DumpHeatmap ==
    /\ pc = "walk"
    /\ addon_index > Len(addons)
    /\ tmp_file' = [exists |-> TRUE, data |-> heatmap_results]
    /\ pc' = "heatmap"
    /\ UNCHANGED <<addons, source_version, target_version, heatmap_category,
                   all_versions, heatmap_results, addon_index, i, calls,
                   cvars, vvars, avars, svars>>

\* lines 180-197: the generator is run on the file, then the file is removed
RunHeatmapGenerator ==
    /\ pc = "heatmap"
    /\ tmp_file' = [tmp_file EXCEPT !.exists = FALSE]
    /\ pc' = "done"
    /\ UNCHANGED <<addons, source_version, target_version, heatmap_category,
                   all_versions, heatmap_results, addon_index, i, calls,
                   cvars, vvars, avars, svars>>

(***************************************************************************)
(* analyze, single-transition mode (no --with-heatmap)                      *)
(***************************************************************************)
SingleAddonLists ==
    {<<>>, <<"delivery">>, <<"delivery", "stock">>, <<"delivery", "stock", "sale">>}

Outputs == {NoOutput, "json"}

\* the command is entered without --with-heatmap
SingleInit ==
    /\ pc = "single"
    /\ addons \in SingleAddonLists
    /\ source_version \in BranchVersions
    /\ target_version \in BranchVersions
    /\ min_lines \in WalkMinLines
    /\ output \in Outputs
    /\ error = NoError
    /\ addon_index = 1
    /\ calls = <<>>
    /\ heatmap_category = "local change"
    /\ all_versions = <<>>
    /\ heatmap_results = EmptyDict
    /\ i = 0
    /\ tmp_file = NoFile
    /\ commits_diff = <<>>
    /\ _results = ResultsStart
    /\ ClassifierIdle
    /\ VersionsIdle

InAddon ==
    /\ pc = "single"
    /\ addon_index <= Len(addons)

\* App(addon_path=..., source=source, target=target, ...) and app.run_analyze()
SingleAttempt(raised, exception, analysis_results) ==
    [addon |-> addons[addon_index],
     source |-> source_version,
     target |-> target_version,
     raised |-> raised,
     exception |-> exception,
     analysis_results |-> analysis_results]

\* lines 200-215: the addon is analysed (the report is printed, or rendered
\* when --output is given) and the loop goes on
SingleAnalyzed ==
    /\ InAddon
    /\ \E commits \in DiffCommitSeqs :
          calls' = Append(calls, SingleAttempt(FALSE, NoError, analyses[min_lines][commits]))
    /\ addon_index' = addon_index + 1
    /\ UNCHANGED <<pc, addons, source_version, target_version, heatmap_category,
                   all_versions, heatmap_results, i, tmp_file, output, error,
                   cvars, vvars, avars>>

\* lines 216-217, ValueError is caught and swallowed: the loop goes on
SingleValueError_swallowed ==
    /\ InAddon
    /\ calls' = Append(calls, SingleAttempt(TRUE, "ValueError", NoPayload))
    /\ addon_index' = addon_index + 1
    /\ UNCHANGED <<pc, addons, source_version, target_version, heatmap_category,
                   all_versions, heatmap_results, i, tmp_file, output, error,
                   cvars, vvars, avars>>

\* lines 216-217: App(...) or app.run_analyze() raises ValueError, which is
\* re-raised as click.ClickException and leaves the command
SingleValueError ==
    /\ InAddon
    /\ calls' = Append(calls, SingleAttempt(TRUE, "ValueError", NoPayload))
    /\ error' = "ClickException"
    /\ pc' = "aborted"
    /\ UNCHANGED <<addons, source_version, target_version, heatmap_category,
                   all_versions, heatmap_results, addon_index, i, tmp_file, output,
                   cvars, vvars, avars>>

\* lines 201-216: any other exception matches no except clause and leaves
\* the command as it is
SingleOtherException ==
    /\ InAddon
    /\ calls' = Append(calls, SingleAttempt(TRUE, "Exception", NoPayload))
    /\ error' = "Exception"
    /\ pc' = "aborted"
    /\ UNCHANGED <<addons, source_version, target_version, heatmap_category,
                   all_versions, heatmap_results, addon_index, i, tmp_file, output,
                   cvars, vvars, avars>>

\* line 200: the loop over addons is exhausted, the command returns
SingleReturn ==
    /\ pc = "single"
    /\ addon_index > Len(addons)
    /\ pc' = "returned"
    /\ UNCHANGED <<addons, source_version, target_version, heatmap_category,
                   all_versions, heatmap_results, addon_index, i, tmp_file, calls,
                   output, error, cvars, vvars, avars>>

NextSingle ==
    \/ SingleAnalyzed
    \/ SingleValueError
    \/ SingleOtherException
    \/ SingleReturn

(***************************************************************************)
(* Specification of the classifier: a summary is drawn, then classified.    *)
(***************************************************************************)
ClassifierInit ==
    /\ pc = "categorize_commit"
    /\ message \in Summaries
    /\ category = Unset
    /\ VersionsIdle
    /\ AggregatorIdle
    /\ WalkIdle
    /\ SingleIdle

Categorize ==
    /\ pc = "categorize_commit"
    /\ category' = categorize_commit(message)
    /\ pc' = "categorized"
    /\ UNCHANGED <<message, vvars, avars, wvars, svars>>

(***************************************************************************)
(* Specification of the version chain: two version strings are drawn, then  *)
(* the chain between them is computed.                                      *)
(***************************************************************************)
VersionsInit ==
    /\ pc = "versions_between"
    /\ source_version_str \in VersionStrings
    /\ target_version_str \in VersionStrings
    /\ versions = <<>>
    /\ ClassifierIdle
    /\ AggregatorIdle
    /\ WalkIdle
    /\ SingleIdle

VersionsBetween ==
    /\ pc = "versions_between"
    /\ versions' = _get_odoo_versions_between(source_version_str, target_version_str)
    /\ pc' = "versions_done"
    /\ UNCHANGED <<source_version_str, target_version_str, cvars, avars, wvars, svars>>

(***************************************************************************)
(* Specification of the aggregator: a commit sequence and a threshold are   *)
(* drawn, then compute_changes stores its result.                           *)
(***************************************************************************)
AggregatorInit ==
    /\ pc = "compute_changes"
    /\ \E k \in 0..MaxCommits :
          \E f \in [1..k -> AggSummaries \X (0..MaxLines)] : commits_diff = CommitSeq(f)
    /\ min_lines \in 0..(MaxLines + 1)
    /\ _results = ResultsStart
    /\ ClassifierIdle
    /\ VersionsIdle
    /\ WalkIdle
    /\ SingleIdle

ComputeChanges ==
    /\ pc = "compute_changes"
    /\ _results' = [process |-> "analyze",
                    results |-> compute_changes(commits_diff, min_lines)]
    /\ pc' = "computed"
    /\ UNCHANGED <<commits_diff, min_lines, cvars, vvars, wvars, svars>>

vars == <<pc, cvars, vvars, avars, wvars, svars>>

Next ==
    \/ StartWalk
    \/ WalkPairRaised
    \/ WalkPairNotExtracted
    \/ WalkPairStored
    \/ NextAddon
    \/ DumpHeatmap
    \/ RunHeatmapGenerator

Spec == AnalyzeInit /\ [][Next]_vars

SpecSingle == SingleInit /\ [][NextSingle]_vars

SpecAggregator == AggregatorInit /\ [][ComputeChanges]_vars

SpecClassifier == ClassifierInit /\ [][Categorize]_vars

SpecVersions == VersionsInit /\ [][VersionsBetween]_vars

(***************************************************************************)
(* Properties of the heatmap walk                                           *)
(***************************************************************************)
\* the matrix key of an attempted analysis
KeyOf(c) == version_transition_key(c.source, c.target)

\* the matrix has a cell for the attempted analysis c
HasCell(c) ==
    /\ c.addon \in DOMAIN heatmap_results
    /\ KeyOf(c) \in DOMAIN heatmap_results[c.addon]

\* the keys of an addon's row; an addon without a row has none
KeysOf(addon) ==
    IF addon \in DOMAIN heatmap_results THEN DOMAIN heatmap_results[addon] ELSE {}

\* the requested category is in the category map of the returned payload
RequestedPresent(c) ==
    /\ ~c.raised
    /\ heatmap_category \in DOMAIN c.analysis_results.results.categories

WalkOver == pc \in {"heatmap", "done"}

Chain171615 == << <<"1","7",".","0">>, <<"1","6",".","0">>, <<"1","5",".","0">> >>

\* C3: every cell holds the line_changes of the requested category of that
\* transition's analysis result, for each of the five labels.
C3_CellIsRequestedCategory ==
    \A n \in 1..Len(calls) :
        (heatmap_category \in Categories /\ HasCell(calls[n])) =>
            /\ RequestedPresent(calls[n])
            /\ heatmap_results[calls[n].addon][KeyOf(calls[n])] =
                  calls[n].analysis_results.results.categories[heatmap_category].line_changes

\* C4: a transition whose result lacks the requested category has no cell.
C4_MissingCategoryOmitted ==
    \A n \in 1..Len(calls) :
        (~calls[n].raised /\ ~RequestedPresent(calls[n])) => ~HasCell(calls[n])

\* C5: after the walk an addon's keys are exactly the keys of its pairs that
\* succeeded (the analysis returned and the requested category was there);
\* for the chain 17.0, 16.0, 15.0 they are among "17.0-16.0" and "16.0-15.0".
C5_KeysAreSucceededPairs ==
    WalkOver =>
       \A a \in 1..Len(addons) :
          /\ KeysOf(addons[a]) =
                {KeyOf(calls[n]) : n \in {m \in 1..Len(calls) :
                                             /\ calls[m].addon = addons[a]
                                             /\ RequestedPresent(calls[m])}}
          /\ all_versions = Chain171615 =>
                KeysOf(addons[a]) \subseteq
                    {version_transition_key(Chain171615[1], Chain171615[2]),
                     version_transition_key(Chain171615[2], Chain171615[3])}

\* the number of adjacent pairs of the chain
Pairs == IF Len(all_versions) >= 2 THEN Len(all_versions) - 1 ELSE 0

\* C6: the n-th analysis attempted is the one for the addon and the adjacent
\* pair that module order, then chain order, put in n-th place; after the
\* walk every pair of every addon has been attempted exactly once; a chain
\* with fewer than two elements gives no attempt and an empty matrix.
C6_EachPairOnceInOrder ==
    /\ \A n \in 1..Len(calls) :
          /\ Pairs > 0
          /\ n <= Len(addons) * Pairs
          /\ calls[n].addon = addons[((n - 1) \div Pairs) + 1]
          /\ calls[n].source = all_versions[((n - 1) % Pairs) + 1]
          /\ calls[n].target = all_versions[((n - 1) % Pairs) + 2]
    /\ WalkOver => Len(calls) = Len(addons) * Pairs
    /\ (WalkOver /\ Len(all_versions) < 2) =>
          /\ calls = <<>>
          /\ heatmap_results = EmptyDict
          /\ tmp_file.data = EmptyDict

C6_Witness ==
    /\ pc = "done"
    /\ Len(calls) = 4
    /\ calls[1].raised
    /\ ~calls[2].raised
    /\ calls[3].addon = "stock"
    /\ HasCell(calls[4])

\* C10: with a category outside the five labels no analysis is attempted and
\* no matrix is written.
C10_UnknownCategoryRejected ==
    heatmap_category \notin Categories =>
        /\ calls = <<>>
        /\ ~tmp_file.exists

(***************************************************************************)
(* Properties of the single-transition mode                                 *)
(***************************************************************************)
\* C11: the addons are analysed in list order with the given source and
\* target; an attempt that raised is the last one (no later addon is
\* analysed); a ValueError leaves the command as a ClickException, so the run
\* is aborted with an error; the command returns normally only when every
\* addon was analysed without an exception.
C11_ValueErrorAbortsRun ==
    /\ \A n \in 1..Len(calls) :
          /\ n <= Len(addons)
          /\ calls[n].addon = addons[n]
          /\ calls[n].source = source_version
          /\ calls[n].target = target_version
          /\ n < Len(calls) => ~calls[n].raised
          /\ calls[n].raised =>
                /\ pc = "aborted"
                /\ error # NoError
                /\ calls[n].exception = "ValueError" => error = "ClickException"
    /\ pc = "returned" =>
          /\ error = NoError
          /\ Len(calls) = Len(addons)
    /\ pc = "aborted" => (calls # <<>> /\ calls[Len(calls)].raised)

C11_Witness ==
    /\ pc = "aborted"
    /\ Len(addons) = 3
    /\ Len(calls) = 2
    /\ ~calls[1].raised
    /\ calls[2].exception = "ValueError"
    /\ error = "ClickException"

(***************************************************************************)
(* Properties of the aggregator                                             *)
(***************************************************************************)
RECURSIVE SumOver(_, _)
\* the sum of f[x] over the finite set S
SumOver(f, S) ==
    IF S = {} THEN 0
    ELSE LET x == CHOOSE y \in S : TRUE IN f[x] + SumOver(f, S \ {x})

\* the positions of the commits that pass the threshold
Qualifying == {p \in 1..Len(commits_diff) : commits_diff[p].lines >= min_lines}

\* the commit at position p is a member of some category of the result
Listed(p) ==
    \E c \in DOMAIN _results.results.categories :
        \E j \in 1..Len(_results.results.categories[c].commit_details) :
            _results.results.categories[c].commit_details[j].hexsha = commits_diff[p].hexsha

\* C1: total_commits and total_line_changes are the sums of the per-category
\* commit counts and line_changes.
C1_TotalsAreCategorySums ==
    pc = "computed" =>
       LET r == _results.results IN
       /\ r.total_commits =
             SumOver([c \in DOMAIN r.categories |-> r.categories[c].commits],
                     DOMAIN r.categories)
       /\ r.total_line_changes =
             SumOver([c \in DOMAIN r.categories |-> r.categories[c].line_changes],
                     DOMAIN r.categories)

C1_Witness ==
    /\ pc = "computed"
    /\ Cardinality(DOMAIN _results.results.categories) >= 2
    /\ _results.results.total_commits < Len(commits_diff)
    /\ _results.results.total_line_changes > 0

\* C2: a commit is counted (member list, commit counts, line totals) if and
\* only if its line_count >= min_lines; when no commit qualifies the totals
\* are zero and the category map is empty.
C2_CountedIffAtLeastMinLines ==
    pc = "computed" =>
       LET r == _results.results IN
       /\ \A p \in 1..Len(commits_diff) : Listed(p) <=> p \in Qualifying
       /\ r.total_commits = Cardinality(Qualifying)
       /\ r.total_line_changes =
             SumOver([p \in Qualifying |-> commits_diff[p].lines], Qualifying)
       /\ \A c \in DOMAIN r.categories :
             LET members == {p \in Qualifying :
                                categorize_commit(commits_diff[p].summary) = c}
             IN  /\ r.categories[c].commits = Cardinality(members)
                 /\ r.categories[c].commits = Len(r.categories[c].commit_details)
                 /\ r.categories[c].line_changes =
                       SumOver([p \in members |-> commits_diff[p].lines], members)
       /\ Qualifying = {} =>
             /\ r.total_commits = 0
             /\ r.total_line_changes = 0
             /\ DOMAIN r.categories = {}

C2_Witness ==
    /\ pc = "computed"
    /\ \E p, q \in 1..Len(commits_diff) :
          /\ commits_diff[p].lines = min_lines
          /\ commits_diff[q].lines < min_lines
          /\ Listed(p)
    /\ _results.results.total_commits = 1

(***************************************************************************)
(* Properties of the classifier                                             *)
(***************************************************************************)
Punctuation == {".", ":", "!", ",", ";"}

\* the position of the first "[fix]" tag of a lower-cased summary
FirstFixTag(l) ==
    CHOOSE p \in 1..Len(l) : OccursAt(l, FixTag, p) /\ \A q \in 1..(p - 1) : ~OccursAt(l, FixTag, q)

\* the summary has a [fix] tag and nothing but blanks after it
FixThenOnlyWhitespace(m) ==
    LET l == lower(m) IN
    /\ Contains(l, FixTag)
    /\ \A q \in (FirstFixTag(l) + 5)..Len(l) : l[q] \in Whitespace

\* the summary has a [fix] tag, and after it only punctuation (at least one
\* sign) and blanks
FixThenOnlyPunctuation(m) ==
    LET l == lower(m) IN
    /\ Contains(l, FixTag)
    /\ \A q \in (FirstFixTag(l) + 5)..Len(l) : l[q] \in Whitespace \cup Punctuation
    /\ \E q \in (FirstFixTag(l) + 5)..Len(l) : l[q] \in Punctuation

HasImpOrRefTag(m) == Contains(lower(m), ImpTag) \/ Contains(lower(m), RefTag)

\* C8: the summary "[IMP] core: batch update" is classified `global change`.
C8_ImpCoreIsGlobalChange ==
    (pc = "categorized" /\ message = ImpCoreBatchUpdate) => category = "global change"

\* C9 as stated: a summary whose [fix] tag is followed only by punctuation
\* is not classified `fix`.
C9_FixPunctuationNotFix ==
    (pc = "categorized" /\ FixThenOnlyPunctuation(message)) => category # "fix"

\* C9 as amended: a summary whose [fix] tag is followed only by whitespace
\* (or by nothing) is not classified `fix`; it is `local change` when it has
\* an imp/ref tag, else `translations` when it has an [i18n] tag, else
\* `other`.  Punctuation after the tag is a token: such a summary is `fix`.
C9_FixWhitespaceFallsThrough ==
    pc = "categorized" =>
       /\ FixThenOnlyWhitespace(message) =>
             category = IF HasImpOrRefTag(message) THEN "local change"
                        ELSE IF Contains(lower(message), I18nTag) THEN "translations"
                        ELSE "other"
       /\ FixThenOnlyPunctuation(message) => category = "fix"

C9_Witness ==
    /\ pc = "categorized"
    /\ FixThenOnlyWhitespace(message)
    /\ Len(message) > 5
    /\ category = "local change"

(***************************************************************************)
(* Properties of the version chain                                          *)
(***************************************************************************)
\* major * 10 + minor of a version string "M.m", read off its decimal form
Enc(v) == CHOOSE e \in 0..(MaxMajor * 10 + 9) : v = str(e \div 10) \o <<".">> \o str(e % 10)

Min(a, b) == IF a < b THEN a ELSE b
Max(a, b) == IF a < b THEN b ELSE a

\* C7: the chain is exactly the versions "k.0" with min(enc) <= 10*k <=
\* max(enc), in strictly descending order, and swapping the arguments gives
\* the same chain.
C7_VersionsBetween ==
    pc = "versions_done" =>
       LET lo == Min(Enc(source_version_str), Enc(target_version_str))
           hi == Max(Enc(source_version_str), Enc(target_version_str))
       IN  /\ \A k \in 0..(MaxMajor + 1) :
                 (\E p \in 1..Len(versions) : versions[p] = str(k) \o <<".", "0">>)
                    <=> (lo <= 10 * k /\ 10 * k <= hi)
           /\ \A p \in 1..Len(versions) :
                 \E k \in 0..MaxMajor : versions[p] = str(k) \o <<".", "0">>
           /\ \A p \in 1..(Len(versions) - 1) :
                 Enc(versions[p]) > Enc(versions[p + 1])
           /\ versions = _get_odoo_versions_between(target_version_str, source_version_str)

C7_Witness ==
    /\ pc = "versions_done"
    /\ Enc(source_version_str) > Enc(target_version_str)
    /\ Enc(target_version_str) % 10 # 0
    /\ Len(versions) >= 3
    /\ str(10) \o <<".", "0">> = versions[1]

====
